---- MODULE Spec2Model ----
(***************************************************************************)
(* The alarm clock sketch arduinoClock.ino as a state machine.             *)
(*                                                                         *)
(* One pass of loop() is the action Tick (handleEepromState, then the      *)
(* switch over uiState) followed by the five AceButton check() calls, each *)
(* of which may deliver one event to handleButton (action Button); the     *)
(* Clicked and Released events AceButton can deliver from one check() have *)
(* together the effect of one of them alone.                               *)
(* Times are in milliseconds (millis) and seconds (the DS3231), and all    *)
(* interval constants keep the values of the sketch.  The display is an    *)
(* output only and is not part of the state.  The 32-bit wrap of millis()  *)
(* (after 49.7 days) lies beyond the explored horizon.                     *)
(***************************************************************************)
EXTENDS Integers, Sequences, FiniteSets, TLC

VARIABLES
  uiState,            \* volatile UiState uiState
  lastStateSet,       \* millis() of the last txToState
  lastAlarmAt,        \* millis() after the last soundAlarm
  lastSnoozAt,        \* millis() of the last snooze
  requestEepromRead,  \* request flag: reload alarm from EEPROM
  requestEepromWrite, \* request flag: write alarm to EEPROM
  alarmTime,          \* DateTime alarmTime, seconds since 2019-01-01 00:00:00
  isAlarmSet,         \* volatile bool isAlarmSet
  fastTimeDirection,  \* -1, 0, +1
  lastFastTimeTick,   \* millis() of the last fast-set step
  brightness,         \* volatile byte brightness
  millis,             \* the value millis() returns during the current pass
  rtc,                \* DS3231 time, seconds since 00:00:00 of the boot day
  rtcFrac,            \* milliseconds into the current DS3231 second
  eeprom,             \* EEPROM bytes at addresses 2, 3, 4
  pc,                 \* position in loop(): index of the next button to check
  ticks,              \* passes of loop() made so far (bounds the exploration)
  events,             \* button events delivered so far (bounds the exploration)
  lastOp,             \* history: the operation that produced this state
  prevState,          \* history: uiState before that operation
  alarmFiredAt,       \* history: DS3231 minute of the last run -> alarmSounding, or -1
  cancelled,          \* history: the last button event was a Snooz long-press that
                      \* cancelled a sounding or snoozed alarm
  scenario            \* history: steps done of the clock-setting scenario (Set
                      \* long-press, label timeout, Plus press, Set press, Set press)

progVars == <<uiState, lastStateSet, lastAlarmAt, lastSnoozAt, requestEepromRead,
              requestEepromWrite, alarmTime, isAlarmSet, fastTimeDirection,
              lastFastTimeTick, brightness, millis, rtc, rtcFrac, eeprom>>
vars == <<progVars, pc, ticks, events, lastOp, prevState, alarmFiredAt, cancelled, scenario>>

----------------------------------------------------------------------------
\* Bounds of the exploration
MaxTicks == 6          \* passes of loop() explored
MaxEvents == 4         \* button events explored
MaxEdits == 2          \* operations applied to each input state of FnSpec

\* elapsed milliseconds of one pass of loop() (the spec asks for <= 1 second):
\* the DS3231 is sampled twice in every second
LoopTimes == {500}
\* DS3231 time of day at boot, in seconds (23:59:59)
StartTimes == {23 * 3600 + 59 * 60 + 59}
\* EEPROM contents at boot: (hour, minute, flag) bytes
EepromInits == { [hour |-> 0, minute |-> 0, set |-> 1], [hour |-> 0, minute |-> 0, set |-> 0],
                 [hour |-> 0, minute |-> 1, set |-> 1], [hour |-> 1, minute |-> 0, set |-> 1] }

----------------------------------------------------------------------------
\* Pin assignments
BTN_SET == 9
BTN_SET_ALARM == 8
BTN_MINUS == 5
BTN_PLUS == 6
BTN_SNOOZ == 7

\* UI timing characteristics
SHOW_LABEL_INTERVAL == 1000
ALARM_REPEAT_INTERVAL == 5000
FAST_TIME_SET_INTERVAL == 100
ALARM_SNOOZ_INTERVAL == 540000
\* the six delay(200) calls of soundAlarm
SOUND_ALARM_DELAY == 1200

\* enum UiState
run == 0
setStart == 1
setHours == 2
setMinutes == 3
setAlarmStart == 4
setAlarmHours == 5
setAlarmMinutes == 6
setAlarmOn == 7
setAlarmOff == 8
alarmSounding == 9
alarmSnoozed == 10

UiStates == run .. alarmSnoozed

\* AceButton event types delivered to handleButton
Pressed == "Pressed"
Released == "Released"
Clicked == "Clicked"
LongPressed == "LongPressed"
EventTypes == {Pressed, Released, Clicked, LongPressed}

\* the order of the check() calls at the end of loop()
CheckOrder == <<BTN_SET, BTN_SET_ALARM, BTN_MINUS, BTN_PLUS, BTN_SNOOZ>>

----------------------------------------------------------------------------
\* DateTime accessors on a count of seconds
hour(t) == (t \div 3600) % 24
minute(t) == (t \div 60) % 60
second(t) == t % 60

\* DateTime + TimeSpan(0, hours, minutes, seconds)
plusTimeSpan(t, hours, minutes, seconds) == t + hours * 3600 + minutes * 60 + seconds

\* the program state as a record
Cur == [uiState |-> uiState, lastStateSet |-> lastStateSet, lastAlarmAt |-> lastAlarmAt,
        lastSnoozAt |-> lastSnoozAt, requestEepromRead |-> requestEepromRead,
        requestEepromWrite |-> requestEepromWrite, alarmTime |-> alarmTime,
        isAlarmSet |-> isAlarmSet, fastTimeDirection |-> fastTimeDirection,
        lastFastTimeTick |-> lastFastTimeTick, brightness |-> brightness,
        millis |-> millis, rtc |-> rtc, rtcFrac |-> rtcFrac, eeprom |-> eeprom]

Becomes(s) ==
  /\ uiState' = s.uiState
  /\ lastStateSet' = s.lastStateSet
  /\ lastAlarmAt' = s.lastAlarmAt
  /\ lastSnoozAt' = s.lastSnoozAt
  /\ requestEepromRead' = s.requestEepromRead
  /\ requestEepromWrite' = s.requestEepromWrite
  /\ alarmTime' = s.alarmTime
  /\ isAlarmSet' = s.isAlarmSet
  /\ fastTimeDirection' = s.fastTimeDirection
  /\ lastFastTimeTick' = s.lastFastTimeTick
  /\ brightness' = s.brightness
  /\ millis' = s.millis
  /\ rtc' = s.rtc
  /\ rtcFrac' = s.rtcFrac
  /\ eeprom' = s.eeprom

\* ms milliseconds pass: millis() and the DS3231 both advance
elapse(s, ms) ==
  [s EXCEPT !.millis = @ + ms,
            !.rtc = @ + (s.rtcFrac + ms) \div 1000,
            !.rtcFrac = (@ + ms) % 1000]

----------------------------------------------------------------------------
\* void txToState(int newState)
txToState(s, newState) == [s EXCEPT !.uiState = newState, !.lastStateSet = s.millis]

\* changeBrightness without the test for 0xff: 0 - 1 wraps to 255 and is clamped to 7
changeBrightness_Wrapping(s, delta) ==
  LET b0 == (s.brightness + (delta % 256)) % 256
      b2 == IF b0 > 7 THEN 7 ELSE b0
  IN [s EXCEPT !.brightness = b2]

\* void changeBrightness(byte delta)
changeBrightness(s, delta) ==
  LET b0 == (s.brightness + (delta % 256)) % 256
      b1 == IF b0 = 255 THEN 0 ELSE b0
      b2 == IF b1 > 7 THEN 7 ELSE b1
  IN [s EXCEPT !.brightness = b2]

\* changeTime with the TimeSpan arguments shifted by one place (days, hours)
changeTime_ShiftedSpan(s, hoursDelta, minutesDelta) ==
  [s EXCEPT !.rtc = s.rtc + hoursDelta * 86400 + minutesDelta * 3600
                     + (IF minutesDelta = 0 THEN 0 ELSE - second(s.rtc)),
            !.rtcFrac = 0]

\* changeTime that never resets the seconds
changeTime_KeepSeconds(s, hoursDelta, minutesDelta) ==
  [s EXCEPT !.rtc = plusTimeSpan(s.rtc, hoursDelta, minutesDelta, 0), !.rtcFrac = 0]

\* void changeTime(int hoursDelta, int minutesDelta): rtc.adjust restarts the second
changeTime(s, hoursDelta, minutesDelta) ==
  [s EXCEPT !.rtc = plusTimeSpan(s.rtc, hoursDelta, minutesDelta,
                                 IF minutesDelta = 0 THEN 0 ELSE - second(s.rtc)),
            !.rtcFrac = 0]

\* changeAlarmTime that stops at the ends of the day instead of wrapping
changeAlarmTime_Saturating(s, hoursDelta, minutesDelta) ==
  LET t == plusTimeSpan(s.alarmTime, hoursDelta, minutesDelta, 0)
  IN [s EXCEPT !.alarmTime = IF t < 0 \/ t >= 86400 THEN s.alarmTime ELSE t]

\* void changeAlarmTime(int hoursDelta, int minutesDelta)
changeAlarmTime(s, hoursDelta, minutesDelta) ==
  [s EXCEPT !.alarmTime = plusTimeSpan(s.alarmTime, hoursDelta, minutesDelta, 0)]

\* readAlarmFromEeprom without the two range tests
readAlarmFromEeprom_Unclamped(s) ==
  [s EXCEPT !.alarmTime = s.eeprom.hour * 3600 + s.eeprom.minute * 60,
            !.isAlarmSet = (s.eeprom.set # 0)]

\* void readAlarmFromEeprom()
readAlarmFromEeprom(s) ==
  LET h0 == s.eeprom.hour
      alarmHour == IF h0 < 0 \/ h0 > 23 THEN 0 ELSE h0
      m0 == s.eeprom.minute
      alarmMinute == IF m0 < 0 \/ m0 > 59 THEN 0 ELSE m0
  IN [s EXCEPT !.alarmTime = alarmHour * 3600 + alarmMinute * 60,
               !.isAlarmSet = (s.eeprom.set # 0)]

\* writeAlarmToEeprom with the hour and minute addresses exchanged
writeAlarmToEeprom_Swapped(s) ==
  [s EXCEPT !.eeprom = [hour |-> minute(s.alarmTime), minute |-> hour(s.alarmTime),
                        set |-> IF s.isAlarmSet THEN 1 ELSE 0]]

\* void writeAlarmToEeprom()
writeAlarmToEeprom(s) ==
  [s EXCEPT !.eeprom = [hour |-> hour(s.alarmTime), minute |-> minute(s.alarmTime),
                        set |-> IF s.isAlarmSet THEN 1 ELSE 0]]

\* handleEepromState that leaves the write request set after writing
handleEepromState_KeepsWriteFlag(s) ==
  IF s.requestEepromRead
    THEN [readAlarmFromEeprom(s) EXCEPT !.requestEepromRead = FALSE]
    ELSE IF s.requestEepromWrite
      THEN writeAlarmToEeprom(s)
      ELSE s

\* void handleEepromState()
handleEepromState(s) ==
  IF s.requestEepromRead
    THEN [readAlarmFromEeprom(s) EXCEPT !.requestEepromRead = FALSE]
    ELSE IF s.requestEepromWrite
      THEN [writeAlarmToEeprom(s) EXCEPT !.requestEepromWrite = FALSE]
      ELSE s

\* isAlarmTime without the test of isAlarmSet
isAlarmTime_IgnoresEnabled(s) ==
  /\ hour(s.rtc) = hour(s.alarmTime)
  /\ minute(s.rtc) = minute(s.alarmTime)
  /\ second(s.rtc) = 0

\* isAlarmTime without the test of the second
isAlarmTime_AnySecond(s) ==
  IF ~ s.isAlarmSet THEN FALSE
  ELSE /\ hour(s.rtc) = hour(s.alarmTime)
       /\ minute(s.rtc) = minute(s.alarmTime)

\* bool isAlarmTime()
isAlarmTime(s) ==
  IF ~ s.isAlarmSet THEN FALSE
  ELSE /\ hour(s.rtc) = hour(s.alarmTime)
       /\ minute(s.rtc) = minute(s.alarmTime)
       /\ second(s.rtc) = 0

\* void soundAlarm(): blocks for six delay(200)
soundAlarm(s) == elapse(s, SOUND_ALARM_DELAY)

\* showCurrentTime without the replacement of hour 0 by 12
showCurrentTime_NoTwelve(s) ==
  [hourMinDec |-> (hour(s.rtc) % 12) * 100 + minute(s.rtc),
   pmLed |-> IF hour(s.rtc) >= 12 THEN (s.brightness + 1) * 31 ELSE 0]

\* void showCurrentTime(): the number given to display.showNumberDecEx and the
\* level given to analogWrite(PM_LED, ..)
showCurrentTime(s) ==
  LET h0 == hour(s.rtc) % 12
      h1 == IF h0 = 0 THEN 12 ELSE h0
      isPM == hour(s.rtc) >= 12
  IN [hourMinDec |-> h1 * 100 + minute(s.rtc),
      pmLed |-> IF isPM THEN (s.brightness + 1) * 31 ELSE 0]

\* void showSettableTime(DateTime t, ..): the number of the lit phase of the
\* blink and the level of digitalWrite(PM_LED, isPM)
showSettableTime(s, t) ==
  LET h0 == hour(t) % 12
      h1 == IF h0 = 0 THEN 12 ELSE h0
      isPM == hour(t) >= 12
  IN [hourMinDec |-> h1 * 100 + minute(t), pmLed |-> IF isPM THEN 255 ELSE 0]

----------------------------------------------------------------------------
\* the fast-set branch shared by the four field-editing cases of loop()
fastSet(s, isAlarm, hoursDelta, minutesDelta) ==
  IF s.fastTimeDirection # 0 /\ s.millis > s.lastFastTimeTick + FAST_TIME_SET_INTERVAL
    THEN [(IF isAlarm THEN changeAlarmTime(s, hoursDelta, minutesDelta)
                      ELSE changeTime(s, hoursDelta, minutesDelta))
            EXCEPT !.lastFastTimeTick = s.millis]
    ELSE s

\* case UiState::run of loop()
loopRun(s) == IF isAlarmTime(s) THEN txToState(s, alarmSounding) ELSE s

\* loopLabel that also evaluates the alarm
loopLabel_ChecksAlarm(s, next) ==
  IF isAlarmTime(s) THEN txToState(s, alarmSounding)
  ELSE IF s.millis <= s.lastStateSet + SHOW_LABEL_INTERVAL THEN s ELSE txToState(s, next)

\* loopLabel with < for <=
loopLabel_Strict(s, next) ==
  IF s.millis < s.lastStateSet + SHOW_LABEL_INTERVAL THEN s ELSE txToState(s, next)

\* a label case of loop(): setStart, setAlarmStart
loopLabel(s, next) ==
  IF s.millis <= s.lastStateSet + SHOW_LABEL_INTERVAL THEN s ELSE txToState(s, next)

\* loopAlarmOnOff without the write
loopAlarmOnOff_NoWrite(s) ==
  IF s.millis <= s.lastStateSet + SHOW_LABEL_INTERVAL THEN s ELSE txToState(s, run)

\* cases setAlarmOn and setAlarmOff of loop()
loopAlarmOnOff(s) ==
  IF s.millis <= s.lastStateSet + SHOW_LABEL_INTERVAL THEN s
  ELSE txToState(writeAlarmToEeprom(s), run)

\* case UiState::alarmSounding of loop()
loopAlarmSounding(s) ==
  IF s.millis > s.lastAlarmAt + ALARM_REPEAT_INTERVAL
    THEN LET t == soundAlarm(s) IN [t EXCEPT !.lastAlarmAt = t.millis]
    ELSE s

\* loopAlarmSnoozed with >= for >
loopAlarmSnoozed_Early(s) ==
  IF s.millis >= s.lastSnoozAt + ALARM_SNOOZ_INTERVAL THEN txToState(s, alarmSounding) ELSE s

\* case UiState::alarmSnoozed of loop()
loopAlarmSnoozed(s) ==
  IF s.millis > s.lastSnoozAt + ALARM_SNOOZ_INTERVAL THEN txToState(s, alarmSounding) ELSE s

\* the switch (uiState) of loop()
loopSwitch(s) ==
  CASE s.uiState = run -> loopRun(s)
    [] s.uiState = setStart -> loopLabel(s, setHours)
    [] s.uiState = setHours -> fastSet(s, FALSE, s.fastTimeDirection, 0)
    [] s.uiState = setMinutes -> fastSet(s, FALSE, 0, s.fastTimeDirection)
    [] s.uiState = setAlarmStart -> loopLabel(s, setAlarmHours)
    [] s.uiState = setAlarmHours -> fastSet(s, TRUE, s.fastTimeDirection, 0)
    [] s.uiState = setAlarmMinutes -> fastSet(s, TRUE, 0, s.fastTimeDirection)
    [] s.uiState = setAlarmOn -> loopAlarmOnOff(s)
    [] s.uiState = setAlarmOff -> loopAlarmOnOff(s)
    [] s.uiState = alarmSounding -> loopAlarmSounding(s)
    [] s.uiState = alarmSnoozed -> loopAlarmSnoozed(s)

\* loop() up to the button checks
loopBody(s) == loopSwitch(handleEepromState(s))

----------------------------------------------------------------------------
\* handleButton, case BTN_SET
handleSet(s, eventType) ==
  IF eventType = LongPressed THEN
    IF s.uiState = run THEN txToState(s, setStart)
    ELSE IF s.uiState >= setStart /\ s.uiState <= setMinutes THEN txToState(s, run)
    ELSE s
  ELSE IF eventType = Pressed THEN
    IF s.uiState = setStart THEN txToState(s, setHours)
    ELSE IF s.uiState = setHours THEN txToState(s, setMinutes)
    ELSE IF s.uiState = setMinutes THEN txToState(s, run)
    ELSE s
  ELSE s

\* toggleAlarm with the two labels exchanged
toggleAlarm_LabelsSwapped(s) ==
  IF s.isAlarmSet THEN txToState([s EXCEPT !.isAlarmSet = FALSE], setAlarmOn)
  ELSE txToState([s EXCEPT !.isAlarmSet = TRUE], setAlarmOff)

\* handleButton, BTN_SET_ALARM clicked outside the alarm-set modes: toggle isAlarmSet
toggleAlarm(s) ==
  IF s.isAlarmSet THEN txToState([s EXCEPT !.isAlarmSet = FALSE], setAlarmOff)
  ELSE txToState([s EXCEPT !.isAlarmSet = TRUE], setAlarmOn)

\* handleSetAlarm that writes the EEPROM in the handler when an alarm edit ends
handleSetAlarm_WritesInline(s, eventType) ==
  IF eventType = LongPressed THEN
    IF s.uiState = run
      THEN txToState([s EXCEPT !.requestEepromRead = TRUE], setAlarmStart)
    ELSE IF s.uiState >= setAlarmStart /\ s.uiState <= setAlarmMinutes
      THEN txToState(writeAlarmToEeprom(s), setAlarmOn)
    ELSE s
  ELSE IF eventType = Clicked THEN
    IF s.uiState = run \/ (s.uiState >= setAlarmOn /\ s.uiState <= alarmSnoozed)
      THEN toggleAlarm(s)
    ELSE IF s.uiState = setAlarmStart THEN txToState(s, setAlarmHours)
    ELSE IF s.uiState = setAlarmHours THEN txToState(s, setAlarmMinutes)
    ELSE IF s.uiState = setAlarmMinutes
      THEN txToState(writeAlarmToEeprom(s), setAlarmOn)
    ELSE s
  ELSE s

\* handleButton, case BTN_SET_ALARM
handleSetAlarm(s, eventType) ==
  IF eventType = LongPressed THEN
    IF s.uiState = run
      THEN txToState([s EXCEPT !.requestEepromRead = TRUE], setAlarmStart)
    ELSE IF s.uiState >= setAlarmStart /\ s.uiState <= setAlarmMinutes
      THEN txToState([s EXCEPT !.requestEepromWrite = TRUE], setAlarmOn)
    ELSE s
  ELSE IF eventType = Clicked THEN
    IF s.uiState = run \/ (s.uiState >= setAlarmOn /\ s.uiState <= alarmSnoozed)
      THEN toggleAlarm(s)
    ELSE IF s.uiState = setAlarmStart THEN txToState(s, setAlarmHours)
    ELSE IF s.uiState = setAlarmHours THEN txToState(s, setAlarmMinutes)
    ELSE IF s.uiState = setAlarmMinutes
      THEN txToState([s EXCEPT !.requestEepromWrite = TRUE], setAlarmOn)
    ELSE s
  ELSE s

\* handleButton, cases BTN_MINUS (dir = -1) and BTN_PLUS (dir = +1)
handleMinusPlus(s, eventType, dir) ==
  IF eventType = Pressed THEN
    IF s.uiState = setHours THEN changeTime(s, dir, 0)
    ELSE IF s.uiState = setMinutes THEN changeTime(s, 0, dir)
    ELSE IF s.uiState = setAlarmHours THEN changeAlarmTime(s, dir, 0)
    ELSE IF s.uiState = setAlarmMinutes THEN changeAlarmTime(s, 0, dir)
    ELSE IF s.uiState = run THEN changeBrightness(s, dir)
    ELSE s
  ELSE IF eventType = LongPressed THEN [s EXCEPT !.fastTimeDirection = dir]
  ELSE IF eventType = Released THEN [s EXCEPT !.fastTimeDirection = 0]
  ELSE s

\* handleButton, case BTN_SNOOZ
handleSnooz(s, eventType) ==
  IF eventType = Pressed THEN
    IF s.uiState = alarmSounding
      THEN txToState([s EXCEPT !.lastSnoozAt = s.millis], alarmSnoozed)
      ELSE s
  ELSE IF eventType = LongPressed THEN txToState(s, run)
  ELSE s

\* void handleButton(AceButton* btn, uint8_t eventType, uint8_t)
handleButton(s, pin, eventType) ==
  CASE pin = BTN_SET -> handleSet(s, eventType)
    [] pin = BTN_SET_ALARM -> handleSetAlarm(s, eventType)
    [] pin = BTN_MINUS -> handleMinusPlus(s, eventType, -1)
    [] pin = BTN_PLUS -> handleMinusPlus(s, eventType, 1)
    [] pin = BTN_SNOOZ -> handleSnooz(s, eventType)

----------------------------------------------------------------------------
\* setup(): globals at their initialisers, then readAlarmFromEeprom()
Boot(t, e) ==
  readAlarmFromEeprom(
    [uiState |-> run, lastStateSet |-> 0, lastAlarmAt |-> 0, lastSnoozAt |-> 0,
     requestEepromRead |-> FALSE, requestEepromWrite |-> FALSE, alarmTime |-> 0,
     isAlarmSet |-> TRUE, fastTimeDirection |-> 0, lastFastTimeTick |-> 0,
     brightness |-> 7, millis |-> 0, rtc |-> t, rtcFrac |-> 0, eeprom |-> e])

Init ==
  /\ \E t \in StartTimes, e \in EepromInits :
       /\ uiState = Boot(t, e).uiState
       /\ lastStateSet = Boot(t, e).lastStateSet
       /\ lastAlarmAt = Boot(t, e).lastAlarmAt
       /\ lastSnoozAt = Boot(t, e).lastSnoozAt
       /\ requestEepromRead = Boot(t, e).requestEepromRead
       /\ requestEepromWrite = Boot(t, e).requestEepromWrite
       /\ alarmTime = Boot(t, e).alarmTime
       /\ isAlarmSet = Boot(t, e).isAlarmSet
       /\ fastTimeDirection = Boot(t, e).fastTimeDirection
       /\ lastFastTimeTick = Boot(t, e).lastFastTimeTick
       /\ brightness = Boot(t, e).brightness
       /\ millis = Boot(t, e).millis
       /\ rtc = Boot(t, e).rtc
       /\ rtcFrac = Boot(t, e).rtcFrac
       /\ eeprom = Boot(t, e).eeprom
  /\ pc = Len(CheckOrder) + 1
  /\ ticks = 0
  /\ events = 0
  /\ lastOp = <<"boot">>
  /\ prevState = run
  /\ alarmFiredAt = -1
  /\ cancelled = FALSE
  /\ scenario = 0

\* one pass of loop() up to the button checks, dt milliseconds after the last one
Tick ==
  \E dt \in LoopTimes :
    /\ ticks < MaxTicks
    /\ Becomes(loopBody(elapse(Cur, dt)))
    /\ pc' = 1
    /\ ticks' = ticks + 1
    /\ lastOp' = <<"tick">>
    /\ prevState' = uiState
    /\ alarmFiredAt' = IF uiState = run /\ uiState' = alarmSounding
                          THEN rtc' \div 60 ELSE alarmFiredAt
    /\ scenario' = IF scenario = 1 /\ uiState' = setHours THEN 2
                    ELSE IF scenario = 5 THEN 0 ELSE scenario
    /\ UNCHANGED <<events, cancelled>>

\* the passes of loop() of a snooze that runs undisturbed, but the last two:
\* k passes in which no button event arrives, no EEPROM request is pending
\* and the switch changes nothing, so that only the clocks move
IdleLoops ==
  \E dt \in LoopTimes :
    LET k == (lastSnoozAt + ALARM_SNOOZ_INTERVAL - millis) \div dt - 1
        s == elapse(Cur, k * dt)
    IN /\ ticks > 0
       /\ uiState = alarmSnoozed
       /\ k >= 1
       /\ loopBody(s) = s
       /\ Becomes(s)
       /\ pc' = Len(CheckOrder) + 1
       /\ lastOp' = <<"idle">>
       /\ prevState' = uiState
       /\ scenario' = 0
       /\ UNCHANGED <<ticks, events, alarmFiredAt, cancelled>>

\* the check() of button CheckOrder[i] delivers eventType to handleButton;
\* the checks of the buttons before it in this pass delivered nothing
Button ==
  \E i \in 1 .. Len(CheckOrder), eventType \in EventTypes :
    /\ ticks > 0
    /\ events < MaxEvents
    /\ pc <= i
    /\ Becomes(handleButton(Cur, CheckOrder[i], eventType))
    /\ pc' = i + 1
    /\ events' = events + 1
    /\ lastOp' = <<"button", CheckOrder[i], eventType>>
    /\ prevState' = uiState
    /\ cancelled' = (/\ CheckOrder[i] = BTN_SNOOZ /\ eventType = LongPressed
                     /\ uiState \in {alarmSounding, alarmSnoozed})
    /\ scenario' =
         IF CheckOrder[i] = BTN_SET /\ eventType = LongPressed /\ uiState = run THEN 1
         ELSE IF scenario = 2 /\ CheckOrder[i] = BTN_PLUS /\ eventType = Pressed THEN 3
         ELSE IF scenario \in {3, 4} /\ CheckOrder[i] = BTN_SET /\ eventType = Pressed
           THEN scenario + 1
         ELSE 0
    /\ UNCHANGED <<ticks, alarmFiredAt>>

Next == Tick \/ IdleLoops \/ Button

Spec == Init /\ [][Next]_vars

----------------------------------------------------------------------------
\* The functions of the sketch on the whole range of their inputs: every
\* time of day, every EEPROM byte, every brightness.  FnInit draws a state
\* the sketch can be in, and at most MaxEdits operations are applied to it.

\* a state in which mode was entered in the current pass of loop(), one
\* minute after boot, at DS3231 time t with EEPROM contents e
InState(t, e, mode, b, ftd) ==
  [Boot(t, e) EXCEPT !.uiState = mode, !.brightness = b, !.fastTimeDirection = ftd,
                     !.millis = 60000, !.lastStateSet = 60000,
                     !.lastSnoozAt = IF mode = alarmSnoozed THEN 60000 ELSE 0]

\* an alarm-set state whose alarm has been edited to a and is not yet written
Edited(s, a) == [s EXCEPT !.alarmTime = a]

\* a label state entered by an AlarmSet click two passes of loop() ago
Toggled(s) == [s EXCEPT !.isAlarmSet = (s.uiState = setAlarmOn),
                        !.lastStateSet = s.millis - SHOW_LABEL_INTERVAL]

Noon == 12 * 3600 + 29
EepromAt(h, m, f) == [hour |-> h, minute |-> m, set |-> f]

EditStates == {setHours, setMinutes, setAlarmHours, setAlarmMinutes}
ShowTimeStates == {run, alarmSounding, alarmSnoozed}

\* EEPROM contents with every byte value at the hour and the minute address
ByteInits ==
  { EepromAt(b, IF k = 0 THEN b ELSE 255 - b, f) : b \in 0 .. 255, k \in 0 .. 1, f \in {0, 1, 255} }

FnInputs ==
  \* every time of day of the clock, 29 seconds into the minute, in the two
  \* clock-setting modes
  { InState(h * 3600 + m * 60 + 29, EepromAt(6, 45, 1), mode, 7, 0) :
      h \in 0 .. 23, m \in 0 .. 59, mode \in {setHours, setMinutes} }
  \cup
  \* every time of day of the alarm in the two alarm-setting modes, the alarm
  \* enabled in half of them
  { Edited(InState(Noon, EepromAt(6, 45, (h + m) % 2), mode, 7, 0), h * 3600 + m * 60) :
      h \in 0 .. 23, m \in 0 .. 59, mode \in {setAlarmHours, setAlarmMinutes} }
  \cup
  \* a Minus or Plus button held at the ends of the day
  { Edited(InState(t, EepromAt(6, 45, 1), mode, 7, ftd), t - 29) :
      t \in {29, 59 * 60 + 29, 23 * 3600 + 29, 23 * 3600 + 59 * 60 + 29},
      mode \in EditStates, ftd \in {-1, 1} }
  \cup
  \* every brightness in every mode, b minutes past noon
  { InState(Noon + b * 60, EepromAt(6, 45, 1), mode, b, 0) : mode \in UiStates, b \in 0 .. 7 }
  \cup
  \* every EEPROM byte
  { InState(Noon, e, run, 7, 0) : e \in ByteInits }
  \cup
  \* every time of day in the modes that show the time
  { InState(h * 3600 + m * 60 + 29, EepromAt(6, 45, 1), run, 7, 0) : h \in 0 .. 23, m \in 0 .. 59 }
  \cup
  { InState(h * 3600 + m * 60 + 29, EepromAt(6, 45, 1), mode, b, 0) :
      h \in {0, 1, 11, 13, 23}, m \in {0, 59}, mode \in ShowTimeStates, b \in {0, 7} }
  \cup
  \* the On and Off labels about to time out, the flag toggled and not yet written
  { Toggled(InState(Noon, EepromAt(h, m, f), mode, 7, 0)) :
      h \in {0, 7, 23}, m \in {0, 30, 59}, f \in {0, 1}, mode \in {setAlarmOn, setAlarmOff} }

FnInit ==
  /\ \E s \in FnInputs :
       /\ uiState = s.uiState
       /\ lastStateSet = s.lastStateSet
       /\ lastAlarmAt = s.lastAlarmAt
       /\ lastSnoozAt = s.lastSnoozAt
       /\ requestEepromRead = s.requestEepromRead
       /\ requestEepromWrite = s.requestEepromWrite
       /\ alarmTime = s.alarmTime
       /\ isAlarmSet = s.isAlarmSet
       /\ fastTimeDirection = s.fastTimeDirection
       /\ lastFastTimeTick = s.lastFastTimeTick
       /\ brightness = s.brightness
       /\ millis = s.millis
       /\ rtc = s.rtc
       /\ rtcFrac = s.rtcFrac
       /\ eeprom = s.eeprom
  /\ pc = 1
  /\ ticks = 0
  /\ events = 0
  /\ lastOp = <<"input">>
  /\ prevState = uiState
  /\ alarmFiredAt = -1
  /\ cancelled = FALSE
  /\ scenario = 0

\* the events applied: a field or brightness step, and the AlarmSet long-press
\* that requests the reload (in run) or the write (in an alarm-set mode)
FnEvents == { <<3, Pressed>>, <<4, Pressed>>, <<2, LongPressed>> }

\* one pass of loop() up to the button checks
FnTick ==
  \E dt \in LoopTimes :
    /\ ticks + events < MaxEdits
    /\ Becomes(loopBody(elapse(Cur, dt)))
    /\ pc' = 1
    /\ ticks' = ticks + 1
    /\ lastOp' = <<"tick">>
    /\ prevState' = uiState
    /\ UNCHANGED <<events, alarmFiredAt, cancelled, scenario>>

\* the check() of button CheckOrder[ev[1]] delivers ev[2] to handleButton
FnButton ==
  \E ev \in FnEvents :
    /\ ticks + events < MaxEdits
    /\ pc <= ev[1]
    /\ Becomes(handleButton(Cur, CheckOrder[ev[1]], ev[2]))
    /\ pc' = ev[1] + 1
    /\ events' = events + 1
    /\ lastOp' = <<"button", CheckOrder[ev[1]], ev[2]>>
    /\ prevState' = uiState
    /\ UNCHANGED <<ticks, alarmFiredAt, cancelled, scenario>>

\* the display call loop() makes in the current mode: the state is left alone
\* and lastOp records what is shown
FnShow ==
  /\ lastOp[1] # "show"
  /\ uiState \in ShowTimeStates \cup EditStates
  /\ LET o == IF uiState \in ShowTimeStates THEN showCurrentTime(Cur)
               ELSE showSettableTime(Cur, IF uiState \in {setHours, setMinutes}
                                            THEN rtc ELSE alarmTime)
     IN lastOp' = <<"show", o.hourMinDec, o.pmLed>>
  /\ prevState' = uiState
  /\ UNCHANGED <<progVars, pc, ticks, events, alarmFiredAt, cancelled, scenario>>

FnNext == FnTick \/ FnButton \/ FnShow

FnSpec == FnInit /\ [][FnNext]_vars

----------------------------------------------------------------------------
\* Vocabulary of the properties
IsTick == lastOp' = <<"tick">>
IsEvent(pin, eventType) == lastOp' = <<"button", pin, eventType>>
WasEvent(pin, eventType) == lastOp = <<"button", pin, eventType>>
AlarmConfigUnchanged == UNCHANGED <<alarmTime, isAlarmSet, eeprom>>
LabelStates == {setStart, setAlarmStart, setAlarmOn, setAlarmOff}
\* the AlarmConfig a reload of the EEPROM would give
Stored == readAlarmFromEeprom(Cur)

\* C1: on every tick in Run the scheduler fires iff the alarm is enabled, the
\* clock's hour and minute equal the alarm's and the clock's second is 0; the
\* mode becomes AlarmSounding when it fires and stays Run when it does not.
C1_AlarmFiresIff ==
  [][ (IsTick /\ uiState = run) =>
        /\ (uiState' = alarmSounding) <=>
             (/\ isAlarmSet'
              /\ hour(rtc') = hour(alarmTime')
              /\ minute(rtc') = minute(alarmTime')
              /\ second(rtc') = 0)
        /\ uiState' \in {run, alarmSounding} ]_vars

\* C1 witness: a tick in Run has fired the alarm.
C1_Witness == lastOp = <<"tick">> /\ prevState = run /\ uiState = alarmSounding

\* C2 (as claimed): the scheduler moves Run to AlarmSounding at most once per
\* matching minute: it never fires in the DS3231 minute it last fired in.
C2_AtMostOncePerMinute ==
  [][ (IsTick /\ uiState = run /\ uiState' = alarmSounding) =>
        rtc' \div 60 # alarmFiredAt ]_vars

\* C3 (as claimed): whenever the mode is Run, the in-memory AlarmConfig equals
\* the one held in the EEPROM.
C3_RunMemoryEqualsStore ==
  uiState = run =>
    /\ hour(alarmTime) = hour(Stored.alarmTime)
    /\ minute(alarmTime) = minute(Stored.alarmTime)
    /\ isAlarmSet = Stored.isAlarmSet

\* C4 (as claimed): a Snooz long-press moves AlarmSounding and AlarmSnoozed to
\* Run and leaves the mode and modeEnteredAt unchanged in the other nine modes.
C4_SnoozLongPressOnlyCancels ==
  [][ IsEvent(BTN_SNOOZ, LongPressed) =>
        IF uiState \in {alarmSounding, alarmSnoozed}
          THEN uiState' = run
          ELSE UNCHANGED <<uiState, lastStateSet>> ]_vars

\* C5 (as claimed): whenever the mode is AlarmOnLabel, the alarm is enabled
\* (finishing an alarm edit forces enabled to true).
C5_AlarmOnLabelMeansEnabled == uiState = setAlarmOn => isAlarmSet

C7_SnoozeSequencing ==
  [][ /\ IsEvent(BTN_SNOOZ, Pressed) =>
           IF uiState = alarmSounding
             THEN uiState' = alarmSnoozed /\ lastSnoozAt' = millis
             ELSE UNCHANGED progVars
      /\ (IsTick \/ lastOp' = <<"idle">>) => millis' > millis
      /\ (lastOp' = <<"idle">> /\ uiState = alarmSnoozed) =>
           uiState' = alarmSnoozed /\ lastSnoozAt' = lastSnoozAt
      /\ (IsTick /\ uiState = alarmSnoozed) =>
           /\ lastSnoozAt' = lastSnoozAt
           /\ uiState' = IF millis' - lastSnoozAt <= ALARM_SNOOZ_INTERVAL
                           THEN alarmSnoozed ELSE alarmSounding ]_vars

\* C7 witness: a snooze has run its full duration and the alarm sounds again.
C7_Witness ==
  /\ lastOp = <<"tick">>
  /\ prevState = alarmSnoozed
  /\ uiState = alarmSounding
  /\ millis > lastSnoozAt + ALARM_SNOOZ_INTERVAL

\* C8 (as claimed): a Snooz long-press in AlarmSounding or AlarmSnoozed returns
\* to Run with the AlarmConfig and the EEPROM unchanged, and, with no further
\* button event, the alarm next fires when the clock reads the alarm's
\* hour:minute:00 on a later day than the firing that was cancelled.
C8_CancelFiresNextDay ==
  [][ /\ (IsEvent(BTN_SNOOZ, LongPressed) /\ uiState \in {alarmSounding, alarmSnoozed}) =>
           uiState' = run /\ AlarmConfigUnchanged
      /\ (IsTick /\ cancelled /\ uiState = run /\ uiState' = alarmSounding) =>
           /\ hour(rtc') = hour(alarmTime') /\ minute(rtc') = minute(alarmTime')
           /\ second(rtc') = 0
           /\ rtc' \div 86400 > (alarmFiredAt * 60) \div 86400 ]_vars

C10_LabelAutoAdvance ==
  [][ (IsTick /\ uiState \in LabelStates) =>
        /\ millis' > millis
        /\ lastStateSet' = IF uiState' = uiState THEN lastStateSet ELSE millis'
        /\ uiState' =
             IF millis' - lastStateSet <= SHOW_LABEL_INTERVAL THEN uiState
             ELSE IF uiState = setStart THEN setHours
             ELSE IF uiState = setAlarmStart THEN setAlarmHours
             ELSE run ]_vars

\* C10 witness: the AlarmSetLabel has timed out into AlarmSetHours.
C10_Witness ==
  /\ lastOp = <<"tick">>
  /\ prevState = setAlarmStart
  /\ uiState = setAlarmHours
  /\ lastStateSet = millis

----------------------------------------------------------------------------
\* Vocabulary of the properties of FnSpec and of the persistence
DirPin(dir) == IF dir = -1 THEN BTN_MINUS ELSE BTN_PLUS
\* a field of n values stepped by dir, wrapping at both ends
Wrapped(v, dir, n) == IF v + dir = n THEN 0 ELSE IF v + dir = -1 THEN n - 1 ELSE v + dir
\* hour and minute of t after a step of the hour field, of the minute field
HourStepped(t, dir) == <<Wrapped(hour(t), dir, 24), minute(t)>>
MinuteStepped(t, dir) ==
  <<IF minute(t) + dir \in {-1, 60} THEN Wrapped(hour(t), dir, 24) ELSE hour(t),
    Wrapped(minute(t), dir, 60)>>
HourMinute(t) == <<hour(t), minute(t)>>
InRange(t) == hour(t) \in 0 .. 23 /\ minute(t) \in 0 .. 59
\* the DS3231 time a pass of loop() reads
ClockAtTick == {elapse(Cur, dt).rtc : dt \in LoopTimes}
\* this pass of loop() makes a fast-set step
FastStep == IsTick /\ fastTimeDirection # 0 /\ ~ requestEepromRead
\* this pass of loop() writes the EEPROM: a serviced request, a label timeout
WriteServiced == IsTick /\ requestEepromWrite /\ ~ requestEepromRead
LabelTimedOut == IsTick /\ uiState \in {setAlarmOn, setAlarmOff} /\ uiState' = run

C12_TimeEditWraps ==
  [][ \A dir \in {-1, 1} :
        /\ IsEvent(DirPin(dir), Pressed) =>
             /\ uiState = setHours => HourMinute(rtc') = HourStepped(rtc, dir)
             /\ uiState = setMinutes => HourMinute(rtc') = MinuteStepped(rtc, dir)
             /\ uiState = setAlarmHours => HourMinute(alarmTime') = HourStepped(alarmTime, dir)
             /\ uiState = setAlarmMinutes => HourMinute(alarmTime') = MinuteStepped(alarmTime, dir)
             /\ InRange(rtc') /\ InRange(alarmTime')
        /\ (FastStep /\ fastTimeDirection = dir) =>
             /\ uiState = setHours =>
                  \E t \in ClockAtTick : HourMinute(rtc') = HourStepped(t, dir)
             /\ uiState = setMinutes =>
                  \E t \in ClockAtTick : HourMinute(rtc') = MinuteStepped(t, dir)
             /\ uiState = setAlarmHours => HourMinute(alarmTime') = HourStepped(alarmTime, dir)
             /\ uiState = setAlarmMinutes => HourMinute(alarmTime') = MinuteStepped(alarmTime, dir)
             /\ InRange(rtc') /\ InRange(alarmTime') ]_vars

\* C12 witness: a Minus press in AlarmSetMinutes has taken the alarm from
\* 00:00 to 23:59 of the day before.
C12_Witness ==
  /\ WasEvent(BTN_MINUS, Pressed)
  /\ prevState = setAlarmMinutes
  /\ alarmTime = - 60
  /\ HourMinute(alarmTime) = <<23, 59>>

\* C13: a reload of the alarm from the EEPROM gives the stored hour if it is
\* in 0..23 and 0 otherwise, the stored minute if it is in 0..59 and 0
\* otherwise, and second 0, whatever the two bytes are, and leaves the mode.
C13_LoadClamps ==
  [][ (IsTick /\ requestEepromRead) =>
        /\ hour(alarmTime') = IF eeprom.hour \in 0 .. 23 THEN eeprom.hour ELSE 0
        /\ minute(alarmTime') = IF eeprom.minute \in 0 .. 59 THEN eeprom.minute ELSE 0
        /\ alarmTime' = hour(alarmTime') * 3600 + minute(alarmTime') * 60
        /\ ~ requestEepromRead'
        /\ uiState' = uiState
        /\ uiState' \in UiStates ]_vars

\* C13 witness: a reload of hour byte 24 and minute byte 231 has given 00:00.
C13_Witness ==
  /\ lastOp = <<"tick">>
  /\ prevState = setAlarmStart
  /\ events = 1 /\ ticks = 1
  /\ eeprom.hour = 24 /\ eeprom.minute = 231
  /\ alarmTime = 0

\* C14: whenever a pass of loop() writes the alarm to the EEPROM, a reload of
\* what was written gives the hour, the minute and the enabled flag of the
\* alarm in memory.
C14_RoundTrip ==
  [][ (WriteServiced \/ LabelTimedOut) =>
        LET r == readAlarmFromEeprom([Cur EXCEPT !.eeprom = eeprom'])
        IN /\ HourMinute(r.alarmTime) = HourMinute(alarmTime')
           /\ r.isAlarmSet = isAlarmSet'
           /\ HourMinute(alarmTime') = HourMinute(alarmTime)
           /\ isAlarmSet' = isAlarmSet ]_vars

\* C14 witness: the alarm 07:30, enabled, edited in memory over a stored 06:45,
\* has been written by the serviced request.
C14_Witness ==
  /\ lastOp = <<"tick">>
  /\ prevState = setAlarmOn /\ uiState = setAlarmOn
  /\ events = 1 /\ ticks = 1
  /\ eeprom = EepromAt(7, 30, 1)
  /\ HourMinute(alarmTime) = <<7, 30>> /\ isAlarmSet

\* C15: in Run, AlarmSounding and AlarmSnoozed the number shown for hour h and
\* minute m is H * 100 + m with H = 12 if h mod 12 = 0 and H = h mod 12
\* otherwise (0 and 12 show as 12, 13 as 1, 23 as 11), and the PM output is on
\* exactly when h >= 12.
C15_TwelveHourRendering ==
  [][ (lastOp'[1] = "show" /\ uiState \in ShowTimeStates) =>
        LET h == hour(rtc)
            H == IF h % 12 = 0 THEN 12 ELSE h % 12
        IN /\ lastOp'[2] = H * 100 + minute(rtc)
           /\ (lastOp'[3] > 0) <=> (h >= 12)
           /\ h \in {0, 12} => lastOp'[2] \div 100 = 12
           /\ h = 13 => lastOp'[2] \div 100 = 1
           /\ h = 23 => lastOp'[2] \div 100 = 11 ]_vars

\* C15 witness: 00:59 is shown as 12:59 with the PM output off, in AlarmSnoozed.
C15_Witness ==
  /\ lastOp = <<"show", 1259, 0>>
  /\ uiState = alarmSnoozed
  /\ HourMinute(rtc) = <<0, 59>>

\* C16: no button event changes the EEPROM or services a request (a request
\* flag that is set stays set), in any mode; the EEPROM changes only in a pass
\* of loop() that services the write request or times out the On or Off label.
C16_NoStoreAccessInEvents ==
  [][ /\ lastOp'[1] = "button" =>
           /\ eeprom' = eeprom
           /\ requestEepromRead => requestEepromRead'
           /\ requestEepromWrite => requestEepromWrite'
      /\ eeprom' # eeprom => (WriteServiced \/ LabelTimedOut) ]_vars

\* C16 witness: a Plus press in AlarmSetHours has changed the alarm in memory
\* and left the EEPROM with the hour it had.
C16_Witness ==
  /\ WasEvent(BTN_PLUS, Pressed)
  /\ prevState = setAlarmHours
  /\ hour(alarmTime) = 1 /\ eeprom.hour = 0

\* C17: a pass of loop() that times out the On or the Off label leaves the
\* EEPROM holding the hour, minute and enabled flag of the alarm in memory.
C17_LabelTimeoutPersists ==
  [][ LabelTimedOut =>
        eeprom' = EepromAt(hour(alarmTime'), minute(alarmTime'),
                           IF isAlarmSet' THEN 1 ELSE 0) ]_vars

\* C17 witness: the Off label has timed out and the flag 0 has replaced the
\* stored 1 of the alarm 00:01.
C17_Witness ==
  /\ lastOp = <<"tick">>
  /\ prevState = setAlarmOff /\ uiState = run
  /\ eeprom = EepromAt(0, 1, 0)
  /\ ~ isAlarmSet

\* C18 (as claimed): an AlarmSet click that toggles enabled sets the write
\* request, and the next pass of loop() writes the new flag to the EEPROM.
C18_ToggleRequestsPersist ==
  [][ /\ (/\ IsEvent(BTN_SET_ALARM, Clicked)
          /\ uiState \in {run, setAlarmOn, setAlarmOff, alarmSounding, alarmSnoozed}) =>
           requestEepromWrite'
      /\ (/\ IsTick
          /\ WasEvent(BTN_SET_ALARM, Clicked)
          /\ prevState \in {run, setAlarmOn, setAlarmOff, alarmSounding, alarmSnoozed}) =>
           eeprom'.set = IF isAlarmSet THEN 1 ELSE 0 ]_vars

\* C19 (as claimed): fastTimeDirection is -1, 0 or +1, and it is 0 in every
\* state whose mode is not one of the four field-editing modes.
C19_FastDirectionOnlyInEdit ==
  /\ fastTimeDirection \in {-1, 0, 1}
  /\ uiState \notin EditStates => fastTimeDirection = 0

\* C20: a minute step of the clock, by a press in SetMinutes or by a fast-set
\* pass, leaves the clock's second at 0; an hour step leaves the second as the
\* clock has it.
C20_MinuteEditResetsSeconds ==
  [][ /\ (\E dir \in {-1, 1} : IsEvent(DirPin(dir), Pressed)) =>
           /\ uiState = setMinutes => second(rtc') = 0
           /\ uiState = setHours => second(rtc') = second(rtc)
      /\ FastStep =>
           /\ uiState = setMinutes => second(rtc') = 0
           /\ uiState = setHours => \E t \in ClockAtTick : second(rtc') = second(t) ]_vars

\* C20 witness: a Plus press in SetMinutes, 29 seconds into 23:59, has set
\* the clock to 00:00:00.
C20_Witness ==
  /\ WasEvent(BTN_PLUS, Pressed)
  /\ prevState = setMinutes
  /\ events = 1 /\ ticks = 0
  /\ HourMinute(rtc) = <<0, 0>> /\ second(rtc) = 0

\* C21: the alarm is enabled in every state whose mode is AlarmSounding or
\* AlarmSnoozed, so an AlarmSet click in either mode leads to AlarmOffLabel
\* with the alarm disabled, never to AlarmOnLabel.
C21_SoundingMeansEnabled ==
  /\ [](uiState \in {alarmSounding, alarmSnoozed} => isAlarmSet)
  /\ [][ (IsEvent(BTN_SET_ALARM, Clicked) /\ uiState \in {alarmSounding, alarmSnoozed}) =>
           uiState' = setAlarmOff /\ ~ isAlarmSet' ]_vars

\* C21 witness: an AlarmSet click in AlarmSnoozed has led to AlarmOffLabel.
C21_Witness ==
  /\ WasEvent(BTN_SET_ALARM, Clicked)
  /\ prevState = alarmSnoozed
  /\ uiState = setAlarmOff
  /\ ~ isAlarmSet

\* C22: the two request flags are never both set; every pass of loop() leaves
\* both clear, having reloaded the alarm if the read was requested and
\* written it if the write was, before its switch and its button checks; and
\* a button event sets at most one of them.
C22_RequestsServicedNextTick ==
  /\ [](~ (requestEepromRead /\ requestEepromWrite))
  /\ [][ /\ IsTick =>
              /\ ~ requestEepromRead' /\ ~ requestEepromWrite'
              /\ requestEepromRead =>
                   /\ HourMinute(alarmTime') = HourMinute(Stored.alarmTime)
                   /\ eeprom' = eeprom
              /\ requestEepromWrite =>
                   eeprom' = EepromAt(hour(alarmTime), minute(alarmTime),
                                      IF isAlarmSet THEN 1 ELSE 0)
         /\ lastOp'[1] = "button" =>
              /\ requestEepromRead' => (requestEepromRead \/ IsEvent(BTN_SET_ALARM, LongPressed))
              /\ requestEepromWrite' =>
                   \/ requestEepromWrite
                   \/ IsEvent(BTN_SET_ALARM, LongPressed)
                   \/ IsEvent(BTN_SET_ALARM, Clicked) ]_vars

\* C22 witness: the pass of loop() after the end of an alarm edit has written
\* the edited hour 2 over the stored hour 1 and cleared the write request,
\* with the On label still shown.
C22_Witness ==
  /\ lastOp = <<"tick">>
  /\ prevState = setAlarmOn /\ uiState = setAlarmOn
  /\ eeprom.hour = 2 /\ hour(alarmTime) = 2
  /\ ~ requestEepromWrite /\ ~ requestEepromRead

\* C23: the mode becomes AlarmSounding only by a pass of loop() in Run whose
\* clock reading is the enabled alarm's hour:minute:00, or by a pass in
\* AlarmSnoozed after the snooze interval; no button event and no pass in a
\* set or label mode enters it.  A pass that finds a set or label mode at the
\* alarm's hour:minute:00 therefore does not fire, and since a later pass in
\* Run fires only on reading hour:minute:00 itself, a second 0 spent outside
\* Run is not made up for on that day.
C23_SoundingOnlyFromRunOrSnoozed ==
  [][ (uiState' = alarmSounding /\ uiState # alarmSounding) =>
        /\ IsTick
        /\ uiState \in {run, alarmSnoozed}
        /\ uiState = run =>
             /\ isAlarmSet'
             /\ HourMinute(rtc') = HourMinute(alarmTime')
             /\ second(rtc') = 0
        /\ uiState = alarmSnoozed => millis' > lastSnoozAt + ALARM_SNOOZ_INTERVAL ]_vars

\* C23 witness: a pass of loop() has found the Set label at the enabled
\* alarm's hour:minute:00 and has not fired.
C23_Witness ==
  /\ lastOp = <<"tick">>
  /\ prevState = setStart /\ uiState = setStart
  /\ isAlarmSet
  /\ HourMinute(rtc) = HourMinute(alarmTime)
  /\ second(rtc) = 0

====
